---- MODULE Spec2Model ----
(***************************************************************************)
(* Model of internal/config/crd_config.go: the resolution of the MeshSync  *)
(* watch-list (whitelist / blacklist) against the static Pipelines         *)
(* registry, and the entry points that invoke it.                          *)
(*                                                                         *)
(* Go values are modelled as follows.                                      *)
(*   error                 a sequence of strings; <<>> is the nil error,   *)
(*                         errors.New(m) is <<m>> and a wrapper prepends   *)
(*                         its own tag to the error it wraps               *)
(*   *MeshsyncConfig       a sequence of at most one config record; <<>>   *)
(*                         is the nil pointer                              *)
(*   map[string]Pipeline-  a record [nil, m]: nil tells the nil map from   *)
(*   Configs               a made one, m is the function key -> pipelines  *)
(*   []T                   a sequence; a nil slice is <<>>                 *)
(*   data["blacklist"]     a record [kind, val]: the key is "absent", its  *)
(*                         string is "empty", "malformed" JSON, or "json"  *)
(*                         text that decodes to the list val               *)
(***************************************************************************)
EXTENDS Integers, Sequences, FiniteSets, TLC

VARIABLES
    Pipelines,      \* the package's registry: scope key -> PipelineConfigs
    DefaultEvents,  \* the package's default event list
    data,           \* the selection map handed to the resolver
    result,         \* what the last entry point returned, and what the resolver
                    \* returned to it (calls, empty when it was not invoked)
    again           \* TRUE when the last entry point invoked the resolver and so
                    \* did the one before it

vars == <<Pipelines, DefaultEvents, data, result, again>>

\* ------------------------------------------------------------- bounds

\* Most entries a selection holds, blacklist and whitelist together.
MaxEntries == 2

\* ------------------------------------------------------------- values

GlobalResourceKey == "global"
LocalResourceKey == "local"
ScopeKeys == {GlobalResourceKey, LocalResourceKey}

\* The pipeline definitions a registry is drawn from.
Definitions ==
    { [Name |-> "Pod", Events |-> <<"ADD", "DELETE">>],
      [Name |-> "Service", Events |-> <<"ADD">>] }

RegistryNames == {d.Name : d \in Definitions}

\* Resource names a selection may mention; "Unknown" is in no registry.
SelectionNames == RegistryNames \cup {"Unknown"}


\* Values the package-level DefaultEvents may hold.
DefaultEventsChoices == { <<"ADD">>, <<"ADDED", "MODIFIED", "DELETED">> }

SeqsUpTo(S, n) == UNION { [1..k -> S] : k \in 0..n }

\* Definition lists of one scope: names are unique within a scope.
ScopeLists ==
    { s \in SeqsUpTo(Definitions, Cardinality(Definitions)) :
        \A i, j \in 1..Len(s) : s[i].Name = s[j].Name => i = j }

Registries == [ScopeKeys -> ScopeLists]

\* Whitelist entries a selection is drawn from: two entries name "Pod" with
\* different events, so that a whitelist can hold duplicates that disagree.
ResourceConfigs ==
    { [Resource |-> "Pod", Events |-> <<"UPDATE">>],
      [Resource |-> "Pod", Events |-> <<"ADD">>],
      [Resource |-> "Service", Events |-> <<"UPDATE">>],
      [Resource |-> "Unknown", Events |-> <<"ADD">>] }

Absent == [kind |-> "absent", val |-> <<>>]
EmptyText == [kind |-> "empty", val |-> <<>>]
Malformed == [kind |-> "malformed", val |-> <<>>]
Json(list) == [kind |-> "json", val |-> list]

RawBlackLists ==
    {Absent, EmptyText, Malformed} \cup {Json(l) : l \in SeqsUpTo(SelectionNames, MaxEntries)}
RawWhiteLists ==
    {Absent, EmptyText, Malformed} \cup {Json(l) : l \in SeqsUpTo(ResourceConfigs, MaxEntries)}

Selections ==
    { d \in [blacklist : RawBlackLists, whitelist : RawWhiteLists] :
        Len(d.blacklist.val) + Len(d.whitelist.val) <= MaxEntries }

\* ------------------------------------------------------------- errors

NoError == <<>>
ErrorsNew(msg) == <<msg>>
ErrInitConfig(err) == <<"ErrInitConfig">> \o err
ErrUnmarshal == <<"ErrUnmarshal">>

MsgMissing == "Both whitelisted and blacklisted resources missing"
MsgConflict == "Both whitelisted and blacklisted resources not currently supported"

\* ------------------------------------------------------------- maps

NilMap == [nil |-> TRUE, m |-> <<>>]
MakeMap == [nil |-> FALSE, m |-> <<>>]
MapSet(mp, k, v) == [nil |-> FALSE, m |-> (k :> v) @@ mp.m]
Keys(mp) == DOMAIN mp.m

\* ------------------------------------------------------------- resolver

\* slices.IndexFunc(s, f), given as hits the value of f on each element of s:
\* the first position where f holds, -1 if there is none.
IndexFunc(hits) ==
    IF \E i \in 1..Len(hits) : hits[i]
    THEN CHOOSE i \in 1..Len(hits) : hits[i] /\ \A j \in 1..(i - 1) : ~hits[j]
    ELSE -1

\* utils.Unmarshal of a non-empty string into a list.
Unmarshal(raw) ==
    IF raw.kind = "malformed"
    THEN [err |-> ErrUnmarshal, val |-> <<>>]
    ELSE [err |-> NoError, val |-> raw.val]

\* The guarded decoding of one key of data: a missing key or an empty string
\* leaves the list nil.
ReadList(raw) ==
    IF raw.kind = "absent" \/ raw.kind = "empty"
    THEN [err |-> NoError, val |-> <<>>]
    ELSE Unmarshal(raw)

\* SelectionError with the second check's && written as ||.
SelectionErrorOr(BlackList, WhiteList) ==
    IF Len(BlackList) = 0 /\ Len(WhiteList) = 0
    THEN ErrInitConfig(ErrorsNew(MsgMissing))
    ELSE IF Len(BlackList) # 0 \/ Len(WhiteList) # 0
         THEN ErrInitConfig(ErrorsNew(MsgConflict))
         ELSE NoError

\* The two checks on the decoded lists; NoError when exactly one is non-empty.
SelectionError(BlackList, WhiteList) ==
    IF Len(BlackList) = 0 /\ Len(WhiteList) = 0
    THEN ErrInitConfig(ErrorsNew(MsgMissing))
    ELSE IF Len(BlackList) # 0 /\ Len(WhiteList) # 0
         THEN ErrInitConfig(ErrorsNew(MsgConflict))
         ELSE NoError

\* AllowIter that appends the definition whether or not an entry matches it.
AllowIterKeepUnmatched(v, WhiteList) ==
    LET idx == IndexFunc([i \in 1..Len(WhiteList) |-> WhiteList[i].Resource = v.Name])
    IN  IF idx # -1
        THEN [reg |-> v, out |-> << [v EXCEPT !.Events = WhiteList[idx].Events] >>]
        ELSE [reg |-> v, out |-> <<v>>]

\* AllowIter that takes the events of the last matching entry.
AllowIterLastMatch(v, WhiteList) ==
    LET hits == {i \in 1..Len(WhiteList) : WhiteList[i].Resource = v.Name}
    IN  IF hits # {}
        THEN LET idx == CHOOSE i \in hits : \A j \in hits : j <= i
             IN  [reg |-> v, out |-> << [v EXCEPT !.Events = WhiteList[idx].Events] >>]
        ELSE [reg |-> v, out |-> <<>>]

\* AllowIter whose v is the registry's element itself, not a copy of it.
AllowIterInPlace(v, WhiteList) ==
    LET idx == IndexFunc([i \in 1..Len(WhiteList) |-> WhiteList[i].Resource = v.Name])
    IN  IF idx # -1
        THEN [reg |-> [v EXCEPT !.Events = WhiteList[idx].Events],
              out |-> << [v EXCEPT !.Events = WhiteList[idx].Events] >>]
        ELSE [reg |-> v, out |-> <<>>]

\* One iteration of a whitelist loop over the registry element v. v is the
\* loop's copy of the element: reg is the element as the registry holds it after
\* the iteration, out the pipelines the iteration appends.
AllowIter(v, WhiteList) ==
    LET idx == IndexFunc([i \in 1..Len(WhiteList) |-> WhiteList[i].Resource = v.Name])
    IN  IF idx # -1
        THEN [reg |-> v, out |-> << [v EXCEPT !.Events = WhiteList[idx].Events] >>]
        ELSE [reg |-> v, out |-> <<>>]

\* DenyIter with the test inverted: it keeps the blacklisted definitions.
DenyIterInverted(v, BlackList, defaultEvents) ==
    LET idx == IndexFunc([i \in 1..Len(BlackList) |-> BlackList[i] = v.Name])
    IN  IF idx # -1
        THEN [reg |-> v, out |-> << [v EXCEPT !.Events = defaultEvents] >>]
        ELSE [reg |-> v, out |-> <<>>]

\* DenyIter that leaves the definition's own events in place.
DenyIterOwnEvents(v, BlackList, defaultEvents) ==
    LET idx == IndexFunc([i \in 1..Len(BlackList) |-> BlackList[i] = v.Name])
    IN  IF idx = -1
        THEN [reg |-> v, out |-> <<v>>]
        ELSE [reg |-> v, out |-> <<>>]

\* DenyIter that looks at the first blacklist entry only.
DenyIterFirstOnly(v, BlackList, defaultEvents) ==
    IF BlackList = <<>> \/ BlackList[1] # v.Name
    THEN [reg |-> v, out |-> << [v EXCEPT !.Events = defaultEvents] >>]
    ELSE [reg |-> v, out |-> <<>>]

\* One iteration of a blacklist loop over the registry element v.
DenyIter(v, BlackList, defaultEvents) ==
    LET idx == IndexFunc([i \in 1..Len(BlackList) |-> BlackList[i] = v.Name])
    IN  IF idx = -1
        THEN [reg |-> v, out |-> << [v EXCEPT !.Events = defaultEvents] >>]
        ELSE [reg |-> v, out |-> <<>>]

RECURSIVE Concat(_)
Concat(ss) == IF ss = <<>> THEN <<>> ELSE Head(ss) \o Concat(Tail(ss))

\* Reverse of a sequence.
Reverse(s) == [i \in 1..Len(s) |-> s[Len(s) + 1 - i]]

\* for _, v := range defs { ... }, given as its the outcome of the body on each
\* element of defs in turn: the registry elements as the loop leaves them, and
\* the output list the successive appends build.
ForRange(its) ==
    [reg |-> [i \in 1..Len(its) |-> its[i].reg],
     out |-> Concat([i \in 1..Len(its) |-> its[i].out])]

\* RangeAllow that puts each pipeline in front of the list instead of appending.
RangeAllowPrepend(defs, WhiteList) ==
    LET r == ForRange([i \in 1..Len(defs) |-> AllowIter(defs[i], WhiteList)])
    IN  [reg |-> r.reg, out |-> Reverse(r.out)]

\* The whitelist loop over one scope's definitions.
RangeAllow(defs, WhiteList) ==
    ForRange([i \in 1..Len(defs) |-> AllowIter(defs[i], WhiteList)])

\* The blacklist loop over one scope's definitions.
RangeDeny(defs, BlackList, defaultEvents) ==
    ForRange([i \in 1..Len(defs) |-> DenyIter(defs[i], BlackList, defaultEvents)])

\* SetLocal without the test on the list's length.
SetLocalAlways(mp, localPipelines) ==
    MapSet(IF mp.nil THEN MakeMap ELSE mp, LocalResourceKey, localPipelines)

\* The global scope's pipelines enter the config's map.
SetGlobal(mp, globalPipelines) ==
    IF Len(globalPipelines) > 0
    THEN MapSet(MakeMap, GlobalResourceKey, globalPipelines)
    ELSE mp

\* The local scope's pipelines enter the config's map, made first if still nil.
SetLocal(mp, localPipelines) ==
    IF Len(localPipelines) > 0
    THEN MapSet(IF mp.nil THEN MakeMap ELSE mp, LocalResourceKey, localPipelines)
    ELSE mp

\* The whitelist branch and the blacklist branch: both scopes, global first.
\* pipelines is the config's map, reg the registry after the loops.
ResolvePipelines(registry, defaultEvents, BlackList, WhiteList) ==
    LET g == IF Len(WhiteList) # 0
             THEN RangeAllow(registry[GlobalResourceKey], WhiteList)
             ELSE RangeDeny(registry[GlobalResourceKey], BlackList, defaultEvents)
        l == IF Len(WhiteList) # 0
             THEN RangeAllow(registry[LocalResourceKey], WhiteList)
             ELSE RangeDeny(registry[LocalResourceKey], BlackList, defaultEvents)
    IN  [pipelines |-> SetLocal(SetGlobal(NilMap, g.out), l.out),
         reg |-> (GlobalResourceKey :> g.reg) @@ (LocalResourceKey :> l.reg)]

\* PopulateConfigsFromMap(data): cfg and err are what it returns, reg is the
\* registry it leaves behind.
PopulateConfigsFromMap(registry, defaultEvents, d) ==
    LET bl == ReadList(d.blacklist)
        wl == ReadList(d.whitelist)
    IN  IF bl.err # NoError
        THEN [cfg |-> <<>>, err |-> ErrInitConfig(bl.err), reg |-> registry]
        ELSE IF wl.err # NoError
        THEN [cfg |-> <<>>, err |-> ErrInitConfig(wl.err), reg |-> registry]
        ELSE IF SelectionError(bl.val, wl.val) # NoError
        THEN [cfg |-> <<>>, err |-> SelectionError(bl.val, wl.val), reg |-> registry]
        ELSE LET r == ResolvePipelines(registry, defaultEvents, bl.val, wl.val)
             IN  [cfg |-> << [BlackList |-> bl.val, WhiteList |-> wl.val,
                              Pipelines |-> r.pipelines] >>,
                  err |-> NoError,
                  reg |-> r.reg]

\* What a resolver invocation handed back to its caller.
Returned(r) == [cfg |-> r.cfg, err |-> r.err]

\* ------------------------------------------------------------- entry points

\* result before any entry point has run.
NoResult == [cfg |-> <<>>, err |-> NoError, calls |-> <<>>]

Init ==
    /\ Pipelines \in Registries
    /\ DefaultEvents \in DefaultEventsChoices
    /\ data \in Selections
    /\ result = NoResult
    /\ again = FALSE

\* A caller invokes PopulateConfigsFromMap(data) itself.
CallPopulateConfigsFromMap ==
    LET r == PopulateConfigsFromMap(Pipelines, DefaultEvents, data)
    IN  /\ result' = [cfg |-> r.cfg, err |-> r.err, calls |-> <<Returned(r)>>]
        /\ Pipelines' = r.reg
        /\ again' = (result.calls # <<>>)
        /\ UNCHANGED <<DefaultEvents, data>>

\* PopulateConfigs(configMap), with configMap.Data = data.
PopulateConfigs ==
    LET r == PopulateConfigsFromMap(Pipelines, DefaultEvents, data)
    IN  /\ result' = [cfg |-> r.cfg, err |-> r.err, calls |-> <<Returned(r)>>]
        /\ Pipelines' = r.reg
        /\ again' = (result.calls # <<>>)
        /\ UNCHANGED <<DefaultEvents, data>>

\* GetMeshsyncCRDConfigsLocal(), with LocalMeshsyncConfig = data.
GetMeshsyncCRDConfigsLocal ==
    LET r == PopulateConfigsFromMap(Pipelines, DefaultEvents, data)
    IN  /\ result' = [cfg |-> IF r.err # NoError THEN <<>> ELSE r.cfg,
                      err |-> r.err,
                      calls |-> <<Returned(r)>>]
        /\ Pipelines' = r.reg
        /\ again' = (result.calls # <<>>)
        /\ UNCHANGED <<DefaultEvents, data>>

\* What the cluster hands back for the custom resource.
CRDOutcomes ==
    {"getError", "nilCRD", "specNotMap", "noWatchList", "marshalError", "unmarshalError", "ok"}

CRDFailure(outcome) ==
    CASE outcome = "getError" -> ErrInitConfig(<<"GetMeshsyncCRD">>)
      [] outcome = "nilCRD" -> ErrInitConfig(ErrorsNew("Custom Resource is nil"))
      [] outcome = "specNotMap" -> ErrInitConfig(ErrorsNew("Unable to convert spec to map"))
      [] outcome = "noWatchList" ->
            ErrInitConfig(ErrorsNew("Custom Resource does not have Meshsync Configs"))
      [] outcome = "marshalError" -> ErrInitConfig(<<"ErrMarshal">>)
      [] outcome = "unmarshalError" -> ErrInitConfig(ErrUnmarshal)

\* GetMeshsyncCRDConfigs(dyClient): the custom resource's watch-list, when it
\* is read and decoded, is the ConfigMap whose Data is data.
GetMeshsyncCRDConfigs(outcome) ==
    IF outcome # "ok"
    THEN /\ result' = [cfg |-> <<>>, err |-> CRDFailure(outcome), calls |-> <<>>]
         /\ again' = FALSE
         /\ UNCHANGED <<Pipelines, DefaultEvents, data>>
    ELSE LET r == PopulateConfigsFromMap(Pipelines, DefaultEvents, data)
         IN  /\ result' = [cfg |-> IF r.err # NoError THEN <<>> ELSE r.cfg,
                           err |-> IF r.err # NoError THEN ErrInitConfig(r.err) ELSE NoError,
                           calls |-> <<Returned(r)>>]
             /\ Pipelines' = r.reg
             /\ again' = (result.calls # <<>>)
             /\ UNCHANGED <<DefaultEvents, data>>

Next ==
    \/ CallPopulateConfigsFromMap
    \/ PopulateConfigs
    \/ GetMeshsyncCRDConfigsLocal
    \/ \E outcome \in CRDOutcomes : GetMeshsyncCRDConfigs(outcome)

Spec == Init /\ [][Next]_vars

\* ------------------------------------------------------------- claims

\* The resolver was invoked by the last entry point; Resolver is what it returned.
Resolved == result.calls # <<>>
Resolver == result.calls[1]

\* The lists the resolver decodes from data, when both decode.
Decoded == data.blacklist.kind # "malformed" /\ data.whitelist.kind # "malformed"
blacklist == data.blacklist.val
whitelist == data.whitelist.val

AllowPath == Resolved /\ Decoded /\ whitelist # <<>> /\ blacklist = <<>>
DenyPath == Resolved /\ Decoded /\ blacklist # <<>> /\ whitelist = <<>>

MissingSelection == <<"ErrInitConfig", MsgMissing>>
ConflictingSelection == <<"ErrInitConfig", MsgConflict>>

\* The pipelines a config map holds for a scope; none when the key is absent.
ScopePipelines(mp, key) == IF key \in Keys(mp) THEN mp.m[key] ELSE <<>>

\* pipelinesByScope of the resolver's successful return.
Resolution == Resolver.cfg[1].Pipelines
Out(key) == ScopePipelines(Resolution, key)

NamesOf(list) == [i \in 1..Len(list) |-> list[i].Name]
Range(seq) == {seq[i] : i \in 1..Len(seq)}
AllowedNames == {e.Resource : e \in Range(whitelist)}
DeniedNames == Range(blacklist)
Known == {d.Name : d \in Range(Pipelines[GlobalResourceKey]) \cup Range(Pipelines[LocalResourceKey])}

\* C1: with both decoded lists empty the resolver fails with MissingSelection,
\* with both non-empty it fails with the different ConflictingSelection, and
\* with exactly one non-empty it returns a config and no error.
C1_MutualExclusion ==
    (Resolved /\ Decoded) =>
        /\ MissingSelection # ConflictingSelection
        /\ (blacklist = <<>> /\ whitelist = <<>>) =>
               (Resolver.err = MissingSelection /\ Resolver.cfg = <<>>)
        /\ (blacklist # <<>> /\ whitelist # <<>>) =>
               (Resolver.err = ConflictingSelection /\ Resolver.cfg = <<>>)
        /\ ((blacklist = <<>>) # (whitelist = <<>>)) =>
               (Resolver.err = NoError /\ Len(Resolver.cfg) = 1)

C1_Witness ==
    /\ Resolved
    /\ Decoded /\ blacklist # <<>> /\ whitelist # <<>>
    /\ Resolver.err = ConflictingSelection

\* C2: on the whitelist path the pipelines of each scope are exactly the
\* registry's definitions of that scope that some whitelist entry names: every
\* pipeline is named by an entry, and a definition no entry names is absent.
C2_AllowListExact ==
    AllowPath =>
        \A key \in ScopeKeys :
            /\ \A p \in Range(Out(key)) :
                   /\ p.Name \in AllowedNames
                   /\ p.Name \in Range(NamesOf(Pipelines[key]))
            /\ \A d \in Range(Pipelines[key]) :
                   (d.Name \in AllowedNames) <=> (d.Name \in Range(NamesOf(Out(key))))

C2_Witness ==
    /\ AllowPath
    /\ \E d \in Range(Pipelines[GlobalResourceKey]) : d.Name \in AllowedNames
    /\ \E d \in Range(Pipelines[GlobalResourceKey]) : d.Name \notin AllowedNames
    /\ Len(Out(GlobalResourceKey)) = 1

\* C3: on the blacklist path no pipeline bears a blacklisted name, and every
\* definition of the registry whose name is not blacklisted appears exactly once
\* among the pipelines of its own scope.
C3_DenyListExact ==
    DenyPath =>
        \A key \in ScopeKeys :
            /\ \A p \in Range(Out(key)) : p.Name \notin DeniedNames
            /\ \A d \in Range(Pipelines[key]) :
                   d.Name \notin DeniedNames =>
                       Cardinality({i \in 1..Len(Out(key)) : Out(key)[i].Name = d.Name}) = 1

C3_Witness ==
    /\ DenyPath
    /\ \E d \in Range(Pipelines[LocalResourceKey]) : d.Name \in DeniedNames
    /\ \E d \in Range(Pipelines[LocalResourceKey]) : d.Name \notin DeniedNames
    /\ Len(Out(LocalResourceKey)) = 1

\* The registry of the scenarios: global = [Pod with events ADD, DELETE],
\* local = [Service with events ADD].
ScenarioRegistry ==
    /\ Pipelines[GlobalResourceKey] = << [Name |-> "Pod", Events |-> <<"ADD", "DELETE">>] >>
    /\ Pipelines[LocalResourceKey] = << [Name |-> "Service", Events |-> <<"ADD">>] >>

C5_FirstMatchWins ==
    AllowPath =>
        /\ Resolver.err = NoError
        /\ Resolver.cfg[1].WhiteList = whitelist
        /\ \A key \in ScopeKeys : \A p \in Range(Out(key)) :
               \E k \in 1..Len(whitelist) :
                   /\ whitelist[k].Resource = p.Name
                   /\ \A j \in 1..(k - 1) : whitelist[j].Resource # p.Name
                   /\ p.Events = whitelist[k].Events

C5_Witness ==
    /\ AllowPath
    /\ Len(whitelist) = 2
    /\ whitelist[1].Resource = whitelist[2].Resource
    /\ whitelist[1].Events # whitelist[2].Events
    /\ \E key \in ScopeKeys : \E p \in Range(Out(key)) :
           /\ p.Name = whitelist[1].Resource
           /\ p.Events = whitelist[1].Events
           /\ \E d \in Range(Pipelines[key]) : d.Name = p.Name /\ d.Events # p.Events

\* s is a subsequence of t.
IsSubsequence(s, t) ==
    \E f \in [1..Len(s) -> 1..Len(t)] :
        /\ \A i \in 1..Len(s) : s[i] = t[f[i]]
        /\ \A i, j \in 1..Len(s) : i < j => f[i] < f[j]

PermutationsOf(seq) ==
    { [i \in 1..Len(seq) |-> seq[f[i]]] :
        f \in {g \in [1..Len(seq) -> 1..Len(seq)] : \A i, j \in 1..Len(seq) : g[i] = g[j] => i = j} }

\* The names, per scope, that the resolver yields for the selection d.
ResolvedNames(d) ==
    LET r == PopulateConfigsFromMap(Pipelines, DefaultEvents, d)
    IN  [key \in ScopeKeys |-> NamesOf(ScopePipelines(r.cfg[1].Pipelines, key))]

\* C6: within each scope the pipelines follow the registry's order (their names
\* are a subsequence of the registry's), and a selection whose entries are
\* permuted yields the same sequence of names in each scope.
C6_RegistryOrder ==
    (AllowPath \/ DenyPath) =>
        /\ \A key \in ScopeKeys : IsSubsequence(NamesOf(Out(key)), NamesOf(Pipelines[key]))
        /\ \A wl \in PermutationsOf(whitelist) : \A bl \in PermutationsOf(blacklist) :
               ResolvedNames([blacklist |-> Json(bl), whitelist |-> Json(wl)])
                   = [key \in ScopeKeys |-> NamesOf(Out(key))]

C6_Witness ==
    /\ AllowPath
    /\ Len(Out(LocalResourceKey)) = 2
    /\ Len(whitelist) = 2
    /\ whitelist[1].Resource = Out(LocalResourceKey)[2].Name
    /\ whitelist[2].Resource = Out(LocalResourceKey)[1].Name

\* A pipeline of the scope is enabled by the selection.
ScopeEnabled(key) ==
    \E d \in Range(Pipelines[key]) :
        IF whitelist # <<>> THEN d.Name \in AllowedNames ELSE d.Name \notin DeniedNames

\* C7: in every successful result a scope key is present exactly when a
\* pipeline of that scope is enabled, and no key is present with an empty list.
C7_ScopeKeys ==
    (AllowPath \/ DenyPath) =>
        /\ Keys(Resolution) \subseteq ScopeKeys
        /\ \A key \in ScopeKeys :
               /\ (key \in Keys(Resolution)) <=> ScopeEnabled(key)
               /\ (key \in Keys(Resolution)) => Resolution.m[key] # <<>>

C7_Witness ==
    /\ DenyPath
    /\ Pipelines[LocalResourceKey] # <<>>
    /\ Pipelines[GlobalResourceKey] # <<>>
    /\ Keys(Resolution) = {GlobalResourceKey}

\* C8: no entry point changes the registry or the selection, so an invocation
\* of the resolver that follows another returns what the earlier one returned.
C8_NoSideEffects ==
    [][ /\ Pipelines' = Pipelines
        /\ data' = data
        /\ (Resolved /\ Resolved') => (Resolver' = Resolver) ]_vars

C8_Witness ==
    /\ again
    /\ AllowPath
    /\ \E key \in ScopeKeys : \E p \in Range(Out(key)) : p \notin Range(Pipelines[key])

\* The selection d with the name u put at position k of its non-empty list
\* (as a whitelist entry with events ev).
WithUnknown(d, u, ev, k) ==
    IF d.whitelist.val # <<>>
    THEN [d EXCEPT !.whitelist =
            Json(SubSeq(d.whitelist.val, 1, k - 1) \o << [Resource |-> u, Events |-> ev] >>
                 \o SubSeq(d.whitelist.val, k, Len(d.whitelist.val)))]
    ELSE [d EXCEPT !.blacklist =
            Json(SubSeq(d.blacklist.val, 1, k - 1) \o <<u>>
                 \o SubSeq(d.blacklist.val, k, Len(d.blacklist.val)))]

\* C9: names that match no definition of the registry are no errors and have no
\* effect: a whitelist of such names alone resolves to a config without scope
\* keys, and putting such a name into the blacklist or the whitelist of a
\* selection that resolves leaves the resolved pipelines as they were.
C9_UnknownNames ==
    (AllowPath \/ DenyPath) =>
        /\ Resolver.err = NoError
        /\ (AllowPath /\ AllowedNames \cap Known = {}) => Keys(Resolution) = {}
        /\ \A u \in SelectionNames \ Known :
           \A ev \in {<<"ADD">>, <<"UPDATE">>} :
           \A k \in 1..(Len(blacklist) + Len(whitelist) + 1) :
               LET r == PopulateConfigsFromMap(Pipelines, DefaultEvents,
                                               WithUnknown(data, u, ev, k))
               IN  r.err = NoError /\ r.cfg[1].Pipelines = Resolution

C9_Witness ==
    /\ AllowPath
    /\ ScenarioRegistry
    /\ whitelist = << [Resource |-> "Unknown", Events |-> <<"ADD">>] >>
    /\ Resolver.err = NoError
    /\ Keys(Resolution) = {}

\* C10: every entry point that invokes the resolver hands a MissingSelection
\* or ConflictingSelection error on as the resolver returned it, invokes the
\* resolver once, and returns no config with the error.
C10_ErrorVerbatim ==
    (/\ Resolved
     /\ Resolver.err \in {MissingSelection, ConflictingSelection}) =>
        /\ result.err = Resolver.err
        /\ result.cfg = <<>>
        /\ Len(result.calls) = 1

====
